---- MODULE Spec2Model ----
(***************************************************************************)
(* A state-machine model of VisualizerEngine (src/engine.js): the engine   *)
(* that loads a JSON state-machine definition, applies events with         *)
(* context-mutating actions, records a history, and supports undo, reset   *)
(* and timed replay.                                                       *)
(*                                                                         *)
(* JavaScript objects have identity, so context objects live in a heap of  *)
(* cells and the engine's fields hold references to them: a deep copy      *)
(* (JSON.parse(JSON.stringify(x))) allocates a new cell holding the JSON   *)
(* round trip of the value, an assignment shares the cell.  The timestamp  *)
(* of a history entry (wall-clock text) is not modelled.                   *)
(***************************************************************************)
EXTENDS Integers, Sequences, FiniteSets, TLC

(***************************************************************************)
(* Bounds of the model.                                                    *)
(***************************************************************************)
\* a caller's send is not offered once history holds this many entries, a
\* replay's send once it holds more
MaxHist == 3
\* at most this many callbacks are subscribed
MaxListeners == 1
\* at most this many replay() calls are in flight at once
MaxReplays == 1

(***************************************************************************)
(* JavaScript values that a context property or an input property holds.  *)
(* An absent property reads as undefined, so both are Undefined here.      *)
(***************************************************************************)
Num(n) == [t |-> "number", n |-> n]
NaN == [t |-> "NaN", n |-> 0]
Null == [t |-> "null", n |-> 0]
Undefined == [t |-> "undefined", n |-> 0]

\* the null of currentStateId, previousStateId and lastEventId
NullId == "<null>"

\* the undefined that currentStateId holds after `transition.to` of a value
\* that has no `to`
UndefinedId == "<undefined>"

\* the names every ordinary object answers for: the properties of
\* Object.prototype, which states[id] and on[eventId] find when the object
\* has no key of its own by that name
ProtoKeys ==
    {"constructor", "toString", "toLocaleString", "valueOf", "hasOwnProperty",
     "isPrototypeOf", "propertyIsEnumerable", "__proto__",
     "__defineGetter__", "__defineSetter__", "__lookupGetter__",
     "__lookupSetter__"}

\* the amount drawn by the action text "context.water -= 10"
BrewAmount == 10

\* ToNumber, as the operators - and < apply it to their operands
ToNumber(v) ==
    CASE v.t = "number" -> v
      [] v.t = "null" -> Num(0)
      [] OTHER -> NaN

\* a - b
JsSub(a, b) ==
    LET x == ToNumber(a)
        y == ToNumber(b)
    IN  IF x.t = "NaN" \/ y.t = "NaN" THEN NaN ELSE Num(x.n - y.n)

\* a < b (false when either operand is NaN)
JsLess(a, b) ==
    LET x == ToNumber(a)
        y == ToNumber(b)
    IN  x.t = "number" /\ y.t = "number" /\ x.n < y.n

\* JSON.parse(JSON.stringify(v)) of a property value: NaN is written as null,
\* an undefined property is dropped (and reads as undefined afterwards)
JsonValue(v) == IF v.t = "NaN" THEN Null ELSE v

\* JSON.parse(JSON.stringify(obj)) of a context object {water: ...}
JsonClone(obj) == [water |-> JsonValue(obj.water)]

\* JSON.parse(JSON.stringify(input)) of an input object {amount: ...}
JsonCloneInput(input) == [amount |-> JsonValue(input.amount)]

\* the object {}
EmptyObj == [water |-> Undefined]

\* the default of send's and recordHistory's parameter: input = {}
DefaultInput == [amount |-> Undefined]

\* the inputs a caller passes to send: none (or {}), or {amount: 10}
Inputs == {DefaultInput, [amount |-> Num(BrewAmount)]}

(***************************************************************************)
(* Action texts, as sequences of statements run by new Function(...):      *)
(*   "DEC"    context.water -= 10                                          *)
(*   "USE"    context.water -= input.amount                                *)
(*   "GUARD"  if (context.water < 10) throw new Error("empty")             *)
(*   "THROW"  throw new Error("fail")                                      *)
(*   "SYNTAX" text that does not parse: new Function itself throws         *)
(* The empty sequence is an absent (falsy) action.                         *)
(***************************************************************************)
Trans(e, to, act) == [event |-> e, to |-> to, label |-> "", action |-> act]

StateDef(id, label, hasOn, on) ==
    [id |-> id, label |-> label, hasOn |-> hasOn, on |-> on]

\* the definition of the README
CoffeeMachine ==
    [id |-> "coffee-machine", initialState |-> "idle", hasStates |-> TRUE,
     hasContext |-> TRUE, context |-> [water |-> Num(100)],
     states |-> <<
        StateDef("idle", "Ready", TRUE,
                 << Trans("BREW", "brewing", <<"DEC">>) >>),
        StateDef("brewing", "", TRUE,
                 << Trans("FINISH", "idle", <<>>) >>) >>]

\* a definition with a guarded action, an action reading the input, failing
\* actions, a self-loop, a dangling target and a state without an `on`
\* mapping
Lab ==
    [id |-> "lab", initialState |-> "idle", hasStates |-> TRUE,
     hasContext |-> TRUE, context |-> [water |-> Num(10)],
     states |-> <<
        StateDef("idle", "", TRUE,
                 << Trans("BREW", "brewing", <<"GUARD", "DEC">>),
                    Trans("DRAIN", "idle", <<"USE">>),
                    Trans("JUMP", "ghost", <<>>) >>),
        StateDef("brewing", "Brewing", TRUE,
                 << Trans("FINISH", "idle", <<>>),
                    Trans("SPILL", "idle", <<"DEC", "THROW">>),
                    Trans("JUMP", "done", <<>>) >>),
        StateDef("done", "", FALSE, <<>>) >>]

\* a definition without `context`, with an event spelled "Initial State", an
\* action text that does not parse and a target named after a property of
\* Object.prototype
Bare ==
    [id |-> "bare", initialState |-> "a", hasStates |-> TRUE,
     hasContext |-> FALSE, context |-> EmptyObj,
     states |-> <<
        StateDef("a", "", TRUE,
                 << Trans("Initial State", "b", <<"DEC">>) >>),
        StateDef("b", "", TRUE,
                 << Trans("FINISH", "a", <<>>),
                    Trans("SPILL", "a", <<"DEC", "SYNTAX">>),
                    Trans("JUMP", "constructor", <<>>) >>) >>]

\* an object without `states`
NoStates ==
    [id |-> "broken", initialState |-> "idle", hasStates |-> FALSE,
     hasContext |-> FALSE, context |-> EmptyObj, states |-> <<>>]

\* the objects a caller passes to load; 0 stands for null
Defs == << CoffeeMachine, Lab, Bare, NoStates >>
LoadArgs == 0 .. Len(Defs)

\* the event identifiers a caller sends
Events ==
    {"BREW", "FINISH", "DRAIN", "JUMP", "SPILL", "Initial State", "BOIL",
     "constructor"}

\* the inputs a caller sends with event e: an amount only with the event
\* whose action text reads input.amount
InputsOf(e) == IF e = "DRAIN" THEN Inputs ELSE { DefaultInput }

VARIABLES
    config,           \* this.config: index into Defs, 0 for null
    currentStateId,   \* this.currentStateId
    previousStateId,  \* this.previousStateId
    lastEventId,      \* this.lastEventId
    context,          \* this.context: a reference into heap
    history,          \* this.history: entries [state, event, context, input]
    listeners,        \* this.listeners: the number of subscribed callbacks
    heap,             \* the context objects, by reference
    delivered,        \* the callback invocations of the last call, in order
    ret,              \* what the last call returned, or "TypeError" if it threw
    op                \* the last call: [name, event, input, arg]

vars == << config, currentStateId, previousStateId, lastEventId, context,
           history, listeners, heap, delivered, ret, op >>

\* the engine's fields as one record
Engine ==
    [config |-> config, currentStateId |-> currentStateId,
     previousStateId |-> previousStateId, lastEventId |-> lastEventId,
     context |-> context, history |-> history, listeners |-> listeners,
     heap |-> heap, delivered |-> <<>>, ret |-> "undefined"]

(***************************************************************************)
(* Lookups in the definition.                                              *)
(***************************************************************************)
\* config.states[id]: the position of key id among the states, -1 when id
\* is no key of the states but a property of Object.prototype (the value
\* read is then an inherited function or object), 0 when states[id] is
\* undefined
StateIndex(d, id) ==
    IF \E k \in 1 .. Len(Defs[d].states) : Defs[d].states[k].id = id
    THEN CHOOSE k \in 1 .. Len(Defs[d].states) : Defs[d].states[k].id = id
    ELSE IF id \in ProtoKeys THEN -1 ELSE 0

\* on[e] of a state's `on`: the position of key e, -1 when e is no key of
\* `on` but a property of Object.prototype, 0 when on[e] is undefined
TransIndex(sd, e) ==
    IF \E k \in 1 .. Len(sd.on) : sd.on[k].event = e
    THEN CHOOSE k \in 1 .. Len(sd.on) : sd.on[k].event = e
    ELSE IF e \in ProtoKeys THEN -1 ELSE 0

\* the inherited value read as a transition: it is truthy, and its `to`,
\* `label` and `action` are undefined
Inherited(e) == [event |-> e, to |-> UndefinedId, label |-> "", action |-> <<>>]

(***************************************************************************)
(* The heap.                                                               *)
(***************************************************************************)
\* a new object holding obj; its reference is Len(E.heap) + 1
Alloc(E, obj) == [E EXCEPT !.heap = Append(@, obj)]

\* JSON.parse(JSON.stringify(E.heap[r])): a new object, the last of the heap
DeepCopy(E, r) == Alloc(E, JsonClone(E.heap[r]))

NewRef(E) == Len(E.heap)

(***************************************************************************)
(* generateMermaid.  The text is kept as its lines: one node per state,    *)
(* with the class lines that follow it, one edge per transition, and the   *)
(* index of the linkStyle line (-1 when there is none).                    *)
(***************************************************************************)
\* two separate tests: a node that is both current and previous gets both
NodeClassesBoth(E, id) ==
    (IF id = E.currentStateId THEN << "current" >> ELSE <<>>)
        \o (IF id = E.previousStateId THEN << "previous" >> ELSE <<>>)

\* lines 114-118: the class lines after the node of state id
NodeClasses(E, id) ==
    IF id = E.currentStateId THEN << "current" >>
    ELSE IF id = E.previousStateId THEN << "previous" >>
    ELSE <<>>

\* lines 111-119: the nodes, in the order of the keys of config.states
Nodes(E) ==
    [k \in 1 .. Len(Defs[E.config].states) |->
        LET sd == Defs[E.config].states[k]
        IN  [id |-> sd.id,
             label |-> IF sd.label # "" THEN sd.label ELSE sd.id,
             classes |-> NodeClasses(E, sd.id)]]

\* lines 126-139: the edges of the states that have `on`, state by state
RECURSIVE Edges(_)
Edges(states) ==
    IF states = <<>> THEN <<>>
    ELSE (IF Head(states).hasOn
          THEN [j \in 1 .. Len(Head(states).on) |->
                    LET trans == Head(states).on[j]
                    IN  [source |-> Head(states).id,
                         event |-> trans.event,
                         label |-> IF trans.label # "" THEN trans.label
                                   ELSE trans.event,
                         to |-> trans.to]]
          ELSE <<>>) \o Edges(Tail(states))

\* lines 124, 133-137: the index of the last edge that leaves previousStateId
\* on lastEventId, -1 when no edge does
activeEdgeIndex(E, edges) ==
    LET hits == { i \in 1 .. Len(edges) :
                    /\ edges[i].source = E.previousStateId
                    /\ edges[i].event = E.lastEventId }
    IN  IF hits = {} THEN -1
        ELSE (CHOOSE i \in hits : \A j \in hits : j <= i) - 1

generateMermaid(E) ==
    IF E.config = 0
    THEN [empty |-> TRUE, nodes |-> <<>>, edges |-> <<>>, linkStyle |-> -1]
    ELSE LET edges == Edges(Defs[E.config].states)
         IN  [empty |-> FALSE,
              nodes |-> Nodes(E),
              edges |-> [i \in 1 .. Len(edges) |->
                            [source |-> edges[i].source,
                             label |-> edges[i].label,
                             to |-> edges[i].to]],
              linkStyle |-> activeEdgeIndex(E, edges)]

(***************************************************************************)
(* getState, notify, recordHistory.                                        *)
(***************************************************************************)
getState(E) ==
    LET k == IF E.config = 0 THEN 0 ELSE StateIndex(E.config, E.currentStateId)
        sd == Defs[E.config].states[k]
    IN  [id |-> E.currentStateId,
         data |-> k,
         context |-> E.context,
         availableEvents |->
            IF k = 0 THEN [defined |-> TRUE, events |-> <<>>]
            ELSE IF k = -1 THEN [defined |-> FALSE, events |-> <<>>]
            ELSE IF sd.hasOn
                 THEN [defined |-> TRUE,
                       events |-> [j \in 1 .. Len(sd.on) |-> sd.on[j].event]]
                 ELSE [defined |-> FALSE, events |-> <<>>],
         mermaid |-> generateMermaid(E),
         history |-> E.history]

notify(E) ==
    [E EXCEPT !.delivered =
        @ \o [i \in 1 .. E.listeners |-> [fn |-> i, state |-> getState(E)]]]

recordHistory(E, event, input) ==
    LET E1 == DeepCopy(E, E.context)
    IN  [E1 EXCEPT !.history =
            Append(@, [state |-> E.currentStateId,
                       event |-> event,
                       context |-> NewRef(E1),
                       input |-> JsonCloneInput(input)])]

(***************************************************************************)
(* load and reset.                                                         *)
(***************************************************************************)
\* a load that keeps the context of the run before
LoadFieldsKeepContext(E, d) ==
    [E EXCEPT !.config = d,
              !.currentStateId = Defs[d].initialState,
              !.previousStateId = NullId,
              !.lastEventId = NullId,
              !.history = <<>>]

\* a load that leaves lastEventId as it was
LoadFieldsKeepLastEvent(E, d) ==
    LET E1 == Alloc(E, JsonClone(IF Defs[d].hasContext
                                 THEN Defs[d].context ELSE EmptyObj))
    IN  [E1 EXCEPT !.config = d,
                   !.context = NewRef(E1),
                   !.currentStateId = Defs[d].initialState,
                   !.previousStateId = NullId,
                   !.history = <<>>]

\* lines 27-32: the fields load assigns
LoadFields(E, d) ==
    LET E1 == Alloc(E, JsonClone(IF Defs[d].hasContext
                                 THEN Defs[d].context ELSE EmptyObj))
    IN  [E1 EXCEPT !.config = d,
                   !.context = NewRef(E1),
                   !.currentStateId = Defs[d].initialState,
                   !.previousStateId = NullId,
                   !.lastEventId = NullId,
                   !.history = <<>>]

\* a load that keeps the object it was given before it looks at it
InvalidConfigKept(E, d) == [E EXCEPT !.config = d]

\* lines 23-26: the message on the console, and nothing else
InvalidConfig(E, d) == E

load(E, d) ==
    IF d = 0 \/ ~Defs[d].hasStates
    THEN InvalidConfig(E, d)
    ELSE notify(recordHistory(LoadFields(E, d), "Initial State", DefaultInput))

reset(E) == IF E.config # 0 THEN load(E, E.config) ELSE E

(***************************************************************************)
(* send.                                                                   *)
(***************************************************************************)
\* the statements of an action text run on the object obj; thrown when one
\* of them throws, obj then holding what the earlier statements wrote
RECURSIVE RunStatements(_, _, _)
RunStatements(prog, obj, input) ==
    IF prog = <<>> THEN [thrown |-> FALSE, obj |-> obj]
    ELSE LET s == Head(prog)
         IN  CASE s = "DEC" ->
                    RunStatements(Tail(prog),
                        [obj EXCEPT !.water = JsSub(@, Num(BrewAmount))], input)
               [] s = "USE" ->
                    RunStatements(Tail(prog),
                        [obj EXCEPT !.water = JsSub(@, input.amount)], input)
               [] s = "GUARD" ->
                    IF JsLess(obj.water, Num(BrewAmount))
                    THEN [thrown |-> TRUE, obj |-> obj]
                    ELSE RunStatements(Tail(prog), obj, input)
               [] OTHER -> [thrown |-> TRUE, obj |-> obj]

\* new Function('context', 'input', text) and its call: a text that does not
\* parse throws before any statement runs
actionFn(prog, obj, input) ==
    IF \E k \in 1 .. Len(prog) : prog[k] = "SYNTAX"
    THEN [thrown |-> TRUE, obj |-> obj]
    ELSE RunStatements(prog, obj, input)

\* a send that hands the action this.context itself
ActionArgShared(E) == [eng |-> E, ref |-> E.context]

\* the argument handed to the action: a deep copy of this.context
ActionArg(E) ==
    LET E1 == DeepCopy(E, E.context)
    IN  [eng |-> E1, ref |-> NewRef(E1)]

\* a move that assigns currentStateId before it saves it
MoveCurrentFirst(E, t, eventId, input) ==
    LET E1 == [E EXCEPT !.currentStateId = t.to,
                        !.previousStateId = t.to,
                        !.lastEventId = eventId]
    IN  [notify(recordHistory(E1, eventId, input)) EXCEPT !.ret = "true"]

\* lines 79-85: the move to the next state
Move(E, t, eventId, input) ==
    LET E1 == [E EXCEPT !.previousStateId = E.currentStateId,
                        !.currentStateId = t.to,
                        !.lastEventId = eventId]
    IN  [notify(recordHistory(E1, eventId, input)) EXCEPT !.ret = "true"]

\* lines 58-61: no transition for the event
NoTransition(E, eventId) == [E EXCEPT !.ret = "false"]

\* lines 72-76: the action threw; E holds whatever the action wrote
ActionFailed(E) == [E EXCEPT !.ret = "error"]

send(E, eventId, input) ==
    LET k == IF E.config = 0 THEN 0 ELSE StateIndex(E.config, E.currentStateId)
        sd == Defs[E.config].states[k]
        j == TransIndex(sd, eventId)
        t == IF j = -1 THEN Inherited(eventId) ELSE sd.on[j]
    IN  IF k <= 0 \/ ~sd.hasOn
        THEN [E EXCEPT !.ret = "TypeError"]
        ELSE IF j = 0
        THEN NoTransition(E, eventId)
        ELSE IF t.action # <<>>
        THEN LET E1 == ActionArg(E).eng
                 w == ActionArg(E).ref
                 r == actionFn(t.action, E1.heap[w], input)
                 E2 == [E1 EXCEPT !.heap[w] = r.obj]
             IN  IF r.thrown
                 THEN ActionFailed(E2)
                 ELSE Move([E2 EXCEPT !.context = w], t, eventId, input)
        ELSE Move(E, t, eventId, input)

(***************************************************************************)
(* undo.                                                                   *)
(***************************************************************************)
\* an undo that goes back to the first entry
PoppedToFirst(h) == SubSeq(h, 1, 1)

\* line 169: history.pop()
Popped(h) == SubSeq(h, 1, Len(h) - 1)

undo(E) ==
    IF Len(E.history) <= 1
    THEN E
    ELSE LET h == Popped(E.history)
             restored == h[Len(h)]
             E1 == DeepCopy([E EXCEPT !.history = h], restored.context)
             E2 == [E1 EXCEPT
                        !.currentStateId = restored.state,
                        !.context = NewRef(E1),
                        !.lastEventId = IF restored.event = "Initial State"
                                        THEN NullId ELSE restored.event,
                        !.previousStateId = IF Len(h) > 1
                                            THEN h[Len(h) - 1].state
                                            ELSE NullId]
         IN  notify(E2)

(***************************************************************************)
(* replay: an async function.  Each call in flight is a record holding the *)
(* sequence it replays and the position of the item its next step sends.   *)
(***************************************************************************)
Item(e, input) == [event |-> e, input |-> input]

\* the sequences a caller passes to replay
ReplaySeqs == <<
    <<>>,
    << Item("BREW", DefaultInput), Item("SPILL", DefaultInput),
       Item("FINISH", DefaultInput) >>,
    << Item("JUMP", DefaultInput),
       Item("DRAIN", [amount |-> Num(BrewAmount)]) >> >>

\* a replay slot nobody uses
IdleReplay == [seq |-> 1, pos |-> 1, status |-> "idle", alone |-> FALSE]

VARIABLES
    replays           \* the replay() calls: [seq, pos, status, alone]; alone
                      \* records that no other call touched the engine since
                      \* this replay began

allvars == << vars, replays >>

\* an engine that gives up the replays in flight when another call arrives
TouchedCancels == [k \in DOMAIN replays |-> IdleReplay]

\* another call touched the engine: a replay in flight is no longer alone,
\* one that has ended is forgotten
Touched == [k \in DOMAIN replays |->
               IF replays[k].status = "waiting"
               THEN [replays[k] EXCEPT !.alone = FALSE]
               ELSE IdleReplay]

(***************************************************************************)
(* Unreachable objects are collected: the objects are renumbered in the    *)
(* order in which the engine's fields and the delivered projections reach  *)
(* them.                                                                   *)
(***************************************************************************)
HistoryRefs(h) == [i \in 1 .. Len(h) |-> h[i].context]

RECURSIVE DeliveredRefs(_)
DeliveredRefs(ds) ==
    IF ds = <<>> THEN <<>>
    ELSE << Head(ds).state.context >> \o HistoryRefs(Head(ds).state.history)
            \o DeliveredRefs(Tail(ds))

RECURSIVE Uniq(_, _)
Uniq(seen, rest) ==
    IF rest = <<>> THEN seen
    ELSE IF \E i \in 1 .. Len(seen) : seen[i] = Head(rest)
         THEN Uniq(seen, Tail(rest))
         ELSE Uniq(Append(seen, Head(rest)), Tail(rest))

Collect(E) ==
    LET live == Uniq(<<>>, << E.context >> \o HistoryRefs(E.history)
                           \o DeliveredRefs(E.delivered))
        to(r) == CHOOSE i \in 1 .. Len(live) : live[i] = r
        hist(h) == [i \in 1 .. Len(h) |-> [h[i] EXCEPT !.context = to(@)]]
    IN  [E EXCEPT
            !.heap = [i \in 1 .. Len(live) |-> E.heap[live[i]]],
            !.context = to(@),
            !.history = hist(@),
            !.delivered = [i \in 1 .. Len(E.delivered) |->
                [E.delivered[i] EXCEPT !.state.context = to(@),
                                       !.state.history = hist(@)]]]

\* the engine's fields after a call that left the engine as E
Becomes(E) ==
    \E C \in {Collect(E)} :
        /\ config' = C.config
        /\ currentStateId' = C.currentStateId
        /\ previousStateId' = C.previousStateId
        /\ lastEventId' = C.lastEventId
        /\ context' = C.context
        /\ history' = C.history
        /\ listeners' = C.listeners
        /\ heap' = C.heap
        /\ delivered' = C.delivered
        /\ ret' = C.ret

Call(name, e, input, arg) ==
    [name |-> name, event |-> e, input |-> input, arg |-> arg]

(***************************************************************************)
(* The state after construction, and the calls.                            *)
(***************************************************************************)
Init ==
    /\ config = 0
    /\ currentStateId = NullId
    /\ previousStateId = NullId
    /\ lastEventId = NullId
    /\ context = 1
    /\ history = <<>>
    /\ listeners = 0
    /\ heap = << EmptyObj >>
    /\ delivered = <<>>
    /\ ret = "undefined"
    /\ op = Call("new", "", DefaultInput, 0)
    /\ replays = [k \in 1 .. MaxReplays |-> IdleReplay]

Subscribe ==
    /\ listeners < MaxListeners
    /\ Becomes([Engine EXCEPT !.listeners = @ + 1])
    /\ op' = Call("subscribe", "", DefaultInput, 0)
    /\ UNCHANGED replays

Load ==
    \E d \in LoadArgs :
        /\ Becomes(load(Engine, d))
        /\ op' = Call("load", "", DefaultInput, d)
        /\ replays' = Touched

Send ==
    \E e \in Events, input \in Inputs :
        /\ input \in InputsOf(e)
        /\ Len(history) < MaxHist
        /\ Becomes(send(Engine, e, input))
        /\ op' = Call("send", e, input, 0)
        /\ replays' = Touched

Undo ==
    /\ Becomes(undo(Engine))
    /\ op' = Call("undo", "", DefaultInput, 0)
    /\ replays' = Touched

Reset ==
    /\ Becomes(reset(Engine))
    /\ op' = Call("reset", "", DefaultInput, 0)
    /\ replays' = Touched

\* the events a caller passes to recordHistory when it calls it itself
RecordEvents == { "BREW" }

\* engine.recordHistory(event): the method called by a caller, not by load
\* or send; input takes its default
RecordHistory ==
    \E e \in RecordEvents :
        /\ Len(history) < MaxHist
        /\ Becomes(recordHistory(Engine, e, DefaultInput))
        /\ op' = Call("recordHistory", e, DefaultInput, 0)
        /\ replays' = Touched

\* engine.notify(): the method called by a caller
Notify ==
    /\ Becomes(notify(Engine))
    /\ op' = Call("notify", "", DefaultInput, 0)
    /\ replays' = Touched

\* replay(sequence): the call up to its first await; its record takes the
\* first slot that holds no replay in flight
ReplayStart ==
    \E k \in DOMAIN replays, s \in 1 .. Len(ReplaySeqs) :
        /\ replays[k].status # "waiting"
        /\ \A j \in 1 .. k - 1 : replays[j].status = "waiting"
        /\ Becomes(reset(Engine))
        /\ op' = Call("replay", "", DefaultInput, s)
        /\ replays' = [Touched EXCEPT ![k] =
                [seq |-> s, pos |-> 1, alone |-> TRUE,
                 status |-> IF ReplaySeqs[s] = <<>> THEN "done" ELSE "waiting"]]

\* a loop that gives up at the first item that send does not apply
AfterItemStopOnFailure(r, E) ==
    [r EXCEPT !.pos = @ + 1,
              !.status = IF E.ret = "TypeError" THEN "rejected"
                         ELSE IF E.ret # "true" \/ r.pos = Len(ReplaySeqs[r.seq])
                              THEN "done" ELSE "waiting"]

\* lines 193-197: the loop goes on to the next item whatever send returned,
\* and ends after the last one; a send that throws rejects the promise
AfterItem(r, E) ==
    [r EXCEPT !.pos = @ + 1,
              !.status = IF E.ret = "TypeError" THEN "rejected"
                         ELSE IF r.pos = Len(ReplaySeqs[r.seq])
                              THEN "done" ELSE "waiting"]

\* one turn of replay's loop, when its timer fires: send(item.event,
\* item.input)
ReplayStep ==
    \E k \in DOMAIN replays :
        /\ replays[k].status = "waiting"
        /\ Len(history) <= MaxHist
        /\ LET r == replays[k]
               item == ReplaySeqs[r.seq][r.pos]
               E == send(Engine, item.event, item.input)
           IN  /\ Becomes(E)
               /\ op' = Call("replayStep", item.event, item.input, r.seq)
               /\ replays' = [Touched EXCEPT ![k] = AfterItem(r, E)]

Next ==
    \/ Subscribe
    \/ Load
    \/ Send
    \/ Undo
    \/ Reset
    \/ RecordHistory
    \/ Notify
    \/ ReplayStart
    \/ ReplayStep

Spec == Init /\ [][Next]_allvars

(***************************************************************************)
(* A caller, or a subscriber, that writes to the projection it was given:  *)
(* p = getState(); p.context.water = 0, or p.history[i].context.water = 0. *)
(***************************************************************************)
CallerWrites ==
    \E r \in {getState(Engine).context}
              \cup {getState(Engine).history[i].context :
                        i \in 1 .. Len(getState(Engine).history)} :
        /\ config # 0
        /\ Becomes([Engine EXCEPT !.heap[r] = [water |-> Num(0)]])
        /\ op' = Call("callerWrite", "", DefaultInput, r)
        /\ replays' = Touched

SpecCaller == Init /\ [][Next \/ CallerWrites]_allvars

(***************************************************************************)
(* A caller that has more than one replay in flight, and sends and undoes  *)
(* between their steps.                                                    *)
(***************************************************************************)
OverlapReplays == MaxReplays + 1

InitOverlap ==
    /\ config = 0
    /\ currentStateId = NullId
    /\ previousStateId = NullId
    /\ lastEventId = NullId
    /\ context = 1
    /\ history = <<>>
    /\ listeners = 0
    /\ heap = << EmptyObj >>
    /\ delivered = <<>>
    /\ ret = "undefined"
    /\ op = Call("new", "", DefaultInput, 0)
    /\ replays = [k \in 1 .. OverlapReplays |-> IdleReplay]

NextOverlap ==
    \/ Load
    \/ Send
    \/ Undo
    \/ RecordHistory
    \/ Notify
    \/ ReplayStart
    \/ ReplayStep

SpecOverlap == InitOverlap /\ [][NextOverlap]_allvars

(***************************************************************************)
(* What a caller can observe of the engine: the fields, with every         *)
(* reference replaced by the value of the object it refers to.             *)
(***************************************************************************)
HistoryOf(E) ==
    [i \in 1 .. Len(E.history) |->
        [state |-> E.history[i].state, event |-> E.history[i].event,
         context |-> E.heap[E.history[i].context],
         input |-> E.history[i].input]]

ViewOf(E) ==
    [currentStateId |-> E.currentStateId,
     previousStateId |-> E.previousStateId,
     lastEventId |-> E.lastEventId,
     context |-> E.heap[E.context],
     history |-> HistoryOf(E)]

ContextValue == heap[context]

HistoryValue == HistoryOf(Engine)

EngineView == ViewOf(Engine)

\* the last call was a send, made by a caller or by a replay
IsSend(o) == o.name \in {"send", "replayStep"}

\* states[currentStateId] exists and has an `on` mapping
CurrentHasOn ==
    /\ config # 0
    /\ \E k \in 1 .. Len(Defs[config].states) :
          /\ Defs[config].states[k].id = currentStateId
          /\ Defs[config].states[k].hasOn

\* the transitions that the `on` mapping of the current state lists for e
ListedTransitions(e) ==
    IF config = 0 THEN {}
    ELSE { t \in UNION { { sd.on[j] : j \in 1 .. Len(sd.on) } :
                         sd \in { Defs[config].states[k] :
                                    k \in { n \in 1 .. Len(Defs[config].states) :
                                              /\ Defs[config].states[n].id = currentStateId
                                              /\ Defs[config].states[n].hasOn } } } :
           t.event = e }

\* states[currentStateId].on[e], when it is truthy: the transition listed for
\* e, or the value inherited from Object.prototype when none is listed
TransitionsFor(e) ==
    IF ListedTransitions(e) # {} THEN ListedTransitions(e)
    ELSE IF CurrentHasOn /\ e \in ProtoKeys THEN { Inherited(e) }
    ELSE {}

\* the transition for e has an action, and the action raises on the context
ActionRaises(e, input) ==
    \E t \in TransitionsFor(e) :
        /\ t.action # <<>>
        /\ actionFn(t.action, JsonClone(ContextValue), input).thrown

(***************************************************************************)
(* C1.  A send whose transition's action raises returns the structured     *)
(* error value, leaves currentStateId, previousStateId, lastEventId,       *)
(* context and history as they were, and invokes no subscriber.            *)
(***************************************************************************)
C1_FailingActionIsAtomic ==
    [][(IsSend(op') /\ ActionRaises(op'.event, op'.input))
        => (ret' = "error" /\ EngineView' = EngineView /\ delivered' = <<>>)
      ]_allvars

\* SPILL ("context.water -= 10; throw ...") was sent with a subscriber
\* registered and failed after it had written to its working copy
C1_Witness ==
    /\ op.name = "send" /\ op.event = "SPILL" /\ ret = "error"
    /\ listeners > 0 /\ Len(history) = 2

(***************************************************************************)
(* C2.  A send of an event that the current state's `on` mapping does not  *)
(* list returns false, leaves currentStateId, previousStateId,             *)
(* lastEventId, context and history as they were, and invokes no           *)
(* subscriber.                                                             *)
(***************************************************************************)
C2_NoTransitionIsPureFailure ==
    [][(IsSend(op') /\ CurrentHasOn /\ ListedTransitions(op'.event) = {})
        => (ret' = "false" /\ EngineView' = EngineView /\ delivered' = <<>>)
      ]_allvars

(***************************************************************************)
(* C3.  A send whose transition exists and whose action does not raise     *)
(* returns true; afterwards previousStateId is the old currentStateId,     *)
(* currentStateId is transition.to, lastEventId is the event, context is   *)
(* the action's result on the old context (the old context without an      *)
(* action), and history is the old history plus one entry holding the new  *)
(* currentStateId, the event, the new context and the given input.         *)
(***************************************************************************)
C3_SuccessfulSendEffect ==
    [][(IsSend(op') /\ ~ActionRaises(op'.event, op'.input))
        => \A t \in TransitionsFor(op'.event) :
              LET new == IF t.action = <<>> THEN ContextValue
                         ELSE actionFn(t.action, ContextValue, op'.input).obj
              IN  /\ ret' = "true"
                  /\ previousStateId' = currentStateId
                  /\ currentStateId' = t.to
                  /\ lastEventId' = op'.event
                  /\ ContextValue' = new
                  /\ HistoryValue' =
                        Append(HistoryValue,
                               [state |-> t.to, event |-> op'.event,
                                context |-> new, input |-> op'.input])
      ]_allvars

(***************************************************************************)
(* C4.  From every reachable state, a send that succeeds followed at once  *)
(* by undo gives back the currentStateId, context, previousStateId and     *)
(* history of that state; and undo with at most one history entry changes  *)
(* nothing and invokes no subscriber.                                      *)
(***************************************************************************)
UndoView(E) == [ViewOf(E) EXCEPT !.lastEventId = NullId]

C4_UndoInvertsSend ==
    /\ \A e \in Events, input \in Inputs :
          LET S == send(Engine, e, input)
          IN  S.ret = "true" => UndoView(undo(S)) = UndoView(Engine)
    /\ Len(history) <= 1 =>
          /\ ViewOf(undo(Engine)) = EngineView
          /\ undo(Engine).delivered = <<>>

(***************************************************************************)
(* C5.  Right after a successful load, and right after reset (also the     *)
(* reset that replay begins with) on a loaded engine, history is the one   *)
(* entry "Initial State" in definition.initialState, currentStateId is     *)
(* definition.initialState, previousStateId and lastEventId are null and   *)
(* context equals definition.context, or {} when the definition has none.  *)
(***************************************************************************)
InitialContext(d) == IF Defs[d].hasContext THEN Defs[d].context ELSE EmptyObj

C5_InitialSnapshot ==
    (/\ config # 0
     /\ \/ op.name = "load" /\ op.arg # 0 /\ Defs[op.arg].hasStates
        \/ op.name \in {"reset", "replay"})
    => /\ op.name = "load" => config = op.arg
       /\ currentStateId = Defs[config].initialState
       /\ previousStateId = NullId
       /\ lastEventId = NullId
       /\ ContextValue = InitialContext(config)
       /\ HistoryValue = << [state |-> Defs[config].initialState,
                             event |-> "Initial State",
                             context |-> InitialContext(config),
                             input |-> DefaultInput] >>

\* reset was called on the loaded lab machine, with a subscriber registered
C5_Witness ==
    /\ op.name = "reset" /\ config = 2 /\ Len(delivered) = 1

(***************************************************************************)
(* C6.  Once a definition is loaded, the last history entry's state is     *)
(* currentStateId and its context equals the live context.                 *)
(***************************************************************************)
C6_TailMatchesLive ==
    config # 0 =>
        /\ Len(history) >= 1
        /\ history[Len(history)].state = currentStateId
        /\ heap[history[Len(history)].context] = ContextValue

(***************************************************************************)
(* C7.  What getState and notify hand out are independent copies: a caller *)
(* that writes to the context, or to a history entry's context, of a       *)
(* projection it received changes neither the engine's live context nor    *)
(* its history entries.                                                    *)
(***************************************************************************)
C7_ProjectionIsIndependent ==
    [][op'.name = "callerWrite" => EngineView' = EngineView]_allvars

(***************************************************************************)
(* C8.  Once a definition is loaded, send returns true, false or the error *)
(* value for every event in every reachable state: it never throws.        *)
(***************************************************************************)
C8_SendNeverThrows ==
    (IsSend(op) /\ config # 0) => ret \in {"true", "false", "error"}

(***************************************************************************)
(* C9.  A replay that ran with no other call touching the engine ends in   *)
(* the state that reset() followed by send(item.event, item.input) for     *)
(* each item in order produces.                                            *)
(***************************************************************************)
\* the caller's own loop over the items, going on after a send that failed
RECURSIVE SendAll(_, _)
SendAll(E, seq) ==
    IF seq = <<>> THEN E
    ELSE SendAll(send(E, Head(seq).event, Head(seq).input), Tail(seq))

C9_ReplayEqualsManual ==
    \A k \in DOMAIN replays :
        (/\ config # 0
         /\ replays[k].status \in {"done", "rejected"}
         /\ replays[k].alone)
        => EngineView = ViewOf(SendAll(reset(Engine), ReplaySeqs[replays[k].seq]))

\* the replay of BREW, SPILL, FINISH on the lab machine has ended: SPILL's
\* action threw, the other two applied
C9_Witness ==
    /\ config = 2
    /\ replays[1] = [seq |-> 2, pos |-> 4, status |-> "done", alone |-> TRUE]
    /\ Len(history) = 3

(***************************************************************************)
(* C10.  Whatever happened since load, reset() followed by a sequence of   *)
(* sends gives, entry by entry, the history (states, events, context       *)
(* snapshots, inputs) that the same sequence gave right after load().      *)
(***************************************************************************)
\* the engine after construction, with the callbacks subscribed so far
FreshEngine ==
    [config |-> 0, currentStateId |-> NullId, previousStateId |-> NullId,
     lastEventId |-> NullId, context |-> 1, history |-> <<>>,
     listeners |-> listeners, heap |-> << EmptyObj >>, delivered |-> <<>>,
     ret |-> "undefined"]

C10_DeterministicRerun ==
    config # 0 =>
        \A s \in 1 .. Len(ReplaySeqs) :
            HistoryOf(SendAll(reset(Engine), ReplaySeqs[s]))
                = HistoryOf(SendAll(load(FreshEngine, config), ReplaySeqs[s]))

\* a first run on the lab machine that changed the context and was undone
C10_Witness ==
    /\ config = 2 /\ op.name = "undo" /\ Len(history) = 2
    /\ ContextValue # InitialContext(config)

(***************************************************************************)
(* C11.  A load whose argument is falsy or has no `states`, and a reset    *)
(* (by a caller or at the start of a replay) before any successful load,   *)
(* leave config, currentStateId, previousStateId, lastEventId, context and *)
(* history as they were and invoke no subscriber.                          *)
(***************************************************************************)
C11_FailedLoadLeavesEngineUntouched ==
    [][(\/ op'.name = "load" /\ op'.arg = 0
        \/ op'.name = "load" /\ op'.arg # 0 /\ ~Defs[op'.arg].hasStates
        \/ op'.name \in {"reset", "replay"} /\ config = 0)
        => (config' = config /\ EngineView' = EngineView /\ delivered' = <<>>)
      ]_allvars

\* an object without `states` was given to an engine that holds a
\* definition, two history entries and a subscriber
C11_Witness ==
    /\ op.name = "load"
    /\ op.arg # 0
    /\ ~Defs[op.arg].hasStates
    /\ config # 0
    /\ Len(history) >= 2
    /\ listeners > 0
    /\ delivered = <<>>

(***************************************************************************)
(* C12.  After every successful load, send and undo each subscriber has    *)
(* been invoked exactly once, in subscription order, with the projection   *)
(* of the engine after the call: its id is the state of the last history   *)
(* entry it carries and its context equals that entry's context.           *)
(***************************************************************************)
\* the call op' made from the current state mutates the engine
Mutates ==
    \/ op'.name = "load" /\ op'.arg # 0 /\ Defs[op'.arg].hasStates
    \/ op'.name \in {"reset", "replay"} /\ config # 0
    \/ IsSend(op') /\ ret' = "true"
    \/ op'.name = "undo" /\ Len(history) > 1

\* subscriber i was invoked i-th and once, with the engine's fields as the
\* call left them
DeliveredInOrder ==
    /\ Len(delivered') = listeners
    /\ \A i \in 1 .. Len(delivered') :
          /\ delivered'[i].fn = i
          /\ delivered'[i].state.id = currentStateId'
          /\ delivered'[i].state.context = context'
          /\ delivered'[i].state.history = history'
          /\ delivered'[i].state.id
                = history'[Len(history')].state

C12_NotificationDiscipline ==
    [][Mutates =>
        /\ DeliveredInOrder
        /\ \A i \in 1 .. Len(delivered') :
              heap'[delivered'[i].state.context]
                = heap'[history'[Len(history')].context]
      ]_allvars

(***************************************************************************)
(* C13.  In every state the diagram gives each node at most one of the     *)
(* classes current and previous, and when currentStateId is a key of       *)
(* `states` exactly one node, that of currentStateId, carries current.     *)
(* The diagram generated after a call equals the one the call generated    *)
(* for its subscribers: generation reads the fields and changes none.      *)
(***************************************************************************)
C13_DiagramEmphasis ==
    LET g == generateMermaid(Engine)
    IN  /\ \A n \in 1 .. Len(g.nodes) : Len(g.nodes[n].classes) <= 1
        /\ (config # 0
             /\ \E k \in 1 .. Len(Defs[config].states) :
                    Defs[config].states[k].id = currentStateId)
            => /\ \E n \in 1 .. Len(g.nodes) :
                    g.nodes[n].classes = << "current" >>
               /\ \A n \in 1 .. Len(g.nodes) :
                    (\E c \in 1 .. Len(g.nodes[n].classes) :
                        g.nodes[n].classes[c] = "current")
                    => g.nodes[n].id = currentStateId
        /\ \A i \in 1 .. Len(delivered) : delivered[i].state.mermaid = g

\* a transition from a state to itself was applied and a subscriber told:
\* the state is both current and previous
C13_Witness ==
    /\ config # 0
    /\ currentStateId = previousStateId
    /\ Len(history) >= 2
    /\ delivered # <<>>
    /\ \E n \in 1 .. Len(generateMermaid(Engine).nodes) :
          /\ generateMermaid(Engine).nodes[n].id = currentStateId
          /\ generateMermaid(Engine).nodes[n].classes = << "current" >>

(***************************************************************************)
(* C14.  History changes only by append and by removal of its last entry:  *)
(* once a definition is loaded it is never empty and its first entry is    *)
(* the "Initial State" entry of the loaded definition; a successful send   *)
(* keeps the entries and appends one, also after an undo; an undo removes  *)
(* the last entry only, never the first; a load or reset starts again; a   *)
(* direct call of recordHistory appends one entry; no other call changes   *)
(* it.                                                                     *)
(***************************************************************************)
\* lines 29, 33: the entry load records
InitialEntry(d) ==
    [state |-> Defs[d].initialState,
     event |-> "Initial State",
     context |-> InitialContext(d),
     input |-> DefaultInput]

C14_HistoryAppendAndTruncate ==
    [][/\ config' # 0
          => (HistoryValue' # <<>> /\ HistoryValue'[1] = InitialEntry(config'))
       /\ CASE (op'.name = "load" /\ op'.arg # 0 /\ Defs[op'.arg].hasStates)
                \/ (op'.name \in {"reset", "replay"} /\ config # 0)
                -> HistoryValue' = << InitialEntry(config') >>
            [] IsSend(op') /\ ret' = "true"
                -> /\ Len(HistoryValue') = Len(HistoryValue) + 1
                   /\ SubSeq(HistoryValue', 1, Len(HistoryValue)) = HistoryValue
                   /\ HistoryValue'[Len(HistoryValue')].event = op'.event
            [] op'.name = "recordHistory"
                -> /\ Len(HistoryValue') = Len(HistoryValue) + 1
                   /\ SubSeq(HistoryValue', 1, Len(HistoryValue)) = HistoryValue
                   /\ HistoryValue'[Len(HistoryValue')].event = op'.event
                   /\ HistoryValue'[Len(HistoryValue')].state = currentStateId
            [] op'.name = "undo" /\ Len(HistoryValue) > 1
                -> /\ HistoryValue'
                        = SubSeq(HistoryValue, 1, Len(HistoryValue) - 1)
                   /\ HistoryValue'[1] = HistoryValue[1]
            [] OTHER -> HistoryValue' = HistoryValue
      ]_allvars

\* an undo took the last of three entries
C14_Witness ==
    /\ op.name = "undo"
    /\ Len(history) = 2
    /\ history[2].event # "Initial State"

(***************************************************************************)
(* C15.  Nothing guards a replay against other calls.  While a replay is   *)
(* suspended between two items, a send is applied as at any other time, an *)
(* undo removes the last entry, a second replay resets the engine, and the *)
(* suspended replay stays in flight at the same item; its later sends act  *)
(* on the history the other calls left.  The witness is a replay that      *)
(* finished, interleaved with a second replay, in another state than its   *)
(* sequence alone produces.                                                *)
(***************************************************************************)
InFlight == { k \in DOMAIN replays : replays[k].status = "waiting" }

C15_ReplayIsUnguarded ==
    [][(InFlight # {} /\ op'.name \in {"send", "undo", "replay"})
        => /\ (op'.name = "send" /\ TransitionsFor(op'.event) # {}
                                 /\ ~ActionRaises(op'.event, op'.input))
              => (ret' = "true" /\ Len(history') = Len(history) + 1
                                /\ history'[Len(history')].event = op'.event)
           /\ (op'.name = "undo" /\ Len(history) > 1)
              => Len(history') = Len(history) - 1
           /\ (op'.name = "replay" /\ config # 0)
              => (Len(history') = 1 /\ lastEventId' = NullId)
           /\ \A k \in InFlight :
                /\ replays'[k].status = "waiting"
                /\ replays'[k].seq = replays[k].seq
                /\ replays'[k].pos = replays[k].pos
      ]_allvars

\* a replay has just completed while a second one, which has sent items
\* already, is still in flight, and the engine is not in the state the
\* completed replay's sequence alone leads to
C15_Witness ==
    /\ config # 0
    /\ op.name = "replayStep"
    /\ \E a \in DOMAIN replays, b \in DOMAIN replays :
          /\ a # b
          /\ replays[a].status = "done"
          /\ ~replays[a].alone
          /\ op.arg = replays[a].seq
          /\ replays[b].status = "waiting"
          /\ replays[b].pos > 1
          /\ Len(history) >= 2
          /\ EngineView
               # ViewOf(SendAll(reset(Engine), ReplaySeqs[replays[a].seq]))

(***************************************************************************)
(* C16.  A replay on a loaded engine that no other call interleaves with   *)
(* calls send once for every item of its sequence, whatever the earlier    *)
(* sends did, and then completes: it never ends rejected, and when it has  *)
(* ended every item has been sent.                                         *)
(***************************************************************************)
C16_ReplayRunsToCompletion ==
    \A k \in DOMAIN replays :
        (config # 0 /\ replays[k].alone /\ replays[k].status # "waiting")
        => /\ replays[k].status = "done"
           /\ replays[k].pos = Len(ReplaySeqs[replays[k].seq]) + 1

(***************************************************************************)
(* C17.  A send whose transition names a state that is not a key of        *)
(* `states` is applied in full: it returns true, sets currentStateId to    *)
(* the name, appends the entry and notifies the subscribers.  While        *)
(* currentStateId dangles every projection has no data and no available    *)
(* events.  An undo from the dangling state goes back to the state the     *)
(* send left, which is a key of `states`.                                  *)
(***************************************************************************)
\* id is not a key of the states of definition d
NotAKey(d, id) ==
    /\ d # 0
    /\ \A k \in 1 .. Len(Defs[d].states) : Defs[d].states[k].id # id

\* line 149: config.states[id] is undefined
Dangling(d, id) ==
    /\ d # 0
    /\ StateIndex(d, id) = 0

\* lines 149-157 when states[currentStateId] is undefined
NoData(p) ==
    /\ p.data = 0
    /\ p.availableEvents = [defined |-> TRUE, events |-> <<>>]

C17_DanglingTargetTakenThenDetected ==
    /\ [](/\ NotAKey(config, currentStateId)
              => (/\ NoData(getState(Engine))
                  /\ \A i \in 1 .. Len(delivered) :
                        NoData(delivered[i].state))
          /\ (config # 0 /\ ~NotAKey(config, currentStateId))
              => getState(Engine).data # 0)
    /\ [][/\ \A t \in TransitionsFor(op'.event) :
                (/\ IsSend(op')
                 /\ NotAKey(config, t.to)
                 /\ ~ActionRaises(op'.event, op'.input))
                => (/\ ret' = "true"
                    /\ currentStateId' = t.to
                    /\ previousStateId' = currentStateId
                    /\ Len(history') = Len(history) + 1
                    /\ history'[Len(history')].state = t.to
                    /\ Len(delivered') = listeners)
          /\ (op'.name = "undo" /\ NotAKey(config, currentStateId)
                                 /\ Len(history) > 1)
                => /\ currentStateId' = previousStateId
                   /\ ~NotAKey(config', currentStateId')
                   /\ Len(history') = Len(history) - 1
          ]_allvars

(***************************************************************************)
(* C18.  The diagram has a linkStyle line exactly when some edge leaves    *)
(* previousStateId on lastEventId, and its index is the zero-based         *)
(* position of that edge among the edges, states and events in definition  *)
(* order.  After a successful send the line names the transition just      *)
(* taken, after an undo the transition that led to the restored state, and *)
(* with one history entry there is no such line.                           *)
(***************************************************************************)
\* the edge the linkStyle line of the diagram names
Highlighted == Edges(Defs[config].states)[generateMermaid(Engine).linkStyle + 1]

\* the diagram names the transition recorded by the last history entry
HighlightsLastEntry ==
    /\ generateMermaid(Engine).linkStyle # -1
    /\ Highlighted.source = history[Len(history) - 1].state
    /\ Highlighted.event = history[Len(history)].event
    /\ Highlighted.to = history[Len(history)].state

C18_EdgeHighlight ==
    config # 0 =>
        /\ generateMermaid(Engine).linkStyle # -1
            <=> \E i \in 1 .. Len(Edges(Defs[config].states)) :
                    /\ Edges(Defs[config].states)[i].source = previousStateId
                    /\ Edges(Defs[config].states)[i].event = lastEventId
        /\ generateMermaid(Engine).linkStyle # -1
            => /\ Highlighted.source = previousStateId
               /\ Highlighted.event = lastEventId
        /\ (IsSend(op) /\ ret = "true")
            => (HighlightsLastEntry /\ Highlighted.event = op.event)
        /\ (op.name = "undo" /\ Len(history) > 1) => HighlightsLastEntry
        /\ Len(history) = 1 => generateMermaid(Engine).linkStyle = -1

(***************************************************************************)
(* C19.  As claimed: once a definition is loaded, previousStateId differs  *)
(* from currentStateId in every reachable state.                           *)
(***************************************************************************)
C19_CurrentAndPreviousDiffer ==
    config # 0 => previousStateId # currentStateId

(***************************************************************************)
(* C19, amended.  Once a definition is loaded, previousStateId equals      *)
(* currentStateId only when the last two history entries record that same  *)
(* state, as after a transition from a state to itself; the node of that   *)
(* state then carries the class current and not the class previous.        *)
(***************************************************************************)
C19_CoincideOnlyOnRepeatedState ==
    (config # 0 /\ previousStateId = currentStateId)
    => /\ Len(history) >= 2
       /\ history[Len(history) - 1].state = currentStateId
       /\ history[Len(history)].state = currentStateId
       /\ \A k \in 1 .. Len(Defs[config].states) :
             Defs[config].states[k].id = currentStateId
             => generateMermaid(Engine).nodes[k].classes = << "current" >>

\* a send has just applied a transition from a state to itself
C19_Witness ==
    /\ config # 0
    /\ IsSend(op)
    /\ ret = "true"
    /\ previousStateId = currentStateId
    /\ history[Len(history)].event = op.event
    /\ \E t \in ListedTransitions(op.event) : t.to = currentStateId

(***************************************************************************)
(* C20.  Once a definition is loaded, for every event name, "Initial       *)
(* State" included: lastEventId is null exactly when history has one       *)
(* entry and is otherwise the event of the last entry; previousStateId is  *)
(* null exactly when history has one entry and is otherwise the state of   *)
(* the entry before the last.                                              *)
(***************************************************************************)
C20_DerivedFieldsAgreeWithHistory ==
    config # 0 =>
        /\ lastEventId = NullId <=> Len(history) = 1
        /\ Len(history) > 1 => lastEventId = history[Len(history)].event
        /\ previousStateId = NullId <=> Len(history) = 1
        /\ Len(history) > 1
            => previousStateId = history[Len(history) - 1].state

====
